---- MODULE Spec2Model ----
(***************************************************************************)
(* A model of rabbitmq_dump_all_queues.py: the queue listing (pagination), *)
(* the per-queue drain (export_queue), the threaded export (export_all),   *)
(* the offline de-duplication (dedup_file) and the restore (import_all).   *)
(*                                                                         *)
(* Names (vhosts, queues, file names) are sequences of tokens; a token     *)
(* stands for one or more characters that the code never splits.           *)
(* A file system is a function from paths to the sequence of lines of the  *)
(* file; a path that is not in its domain does not exist.                  *)
(***************************************************************************)
EXTENDS Integers, Sequences, FiniteSets, TLC

\* ------------------------------------------------------------------ bounds
\* Longest backup file offered to dedup_file.
MaxLines == 4

\* Largest advertised message count of a queue.
MaxExpected == 2
\* Most records one read response carries.
MaxBatch == 2
\* How many reads after the advertised count the stream may stay non-empty.
MaxExtra == 2

\* MAX_PAGE_SIZE of the source is 500; the model pages by this many items.
MAX_PAGE_SIZE == 2
\* Most pages the management API holds.
MaxPages == 3
\* Most worker threads (args.parallel).
MaxParallel == 2
\* Most transport faults of the link to the destination in one restore.
MaxFaults == 1

SeqsUpTo(S, n) == UNION {[1..k -> S] : k \in 0..n}

\* --------------------------------------------------------------- constants
SUFFIX == <<".", "jsonl", ".", "gz">>

RESERVED_PREFIXES ==
    {<<"amq", ".">>, <<"reply_">>, <<"rabbitmq", ".", "recovery", ".">>}

\* max_empty_attempts of export_queue.
max_empty_attempts == 3

\* ------------------------------------------------------------------ names
\* urllib.parse.quote(name, safe=""): every character outside the unreserved
\* set becomes "%XX"; here "/" -> %2F, "%" -> %25, " " -> %20.
QuoteToken(c) == CASE c = "/" -> <<"%", "2F">>
                   [] c = "%" -> <<"%", "25">>
                   [] c = " " -> <<"%", "20">>
                   [] OTHER -> <<c>>
RECURSIVE Quote(_)
Quote(name) ==
    IF name = <<>> THEN <<>> ELSE QuoteToken(Head(name)) \o Quote(Tail(name))

\* urllib.parse.unquote(raw): "%XX" becomes its character, anything else stays.
HexChar(h) == CASE h = "2F" -> "/" [] h = "25" -> "%" [] h = "20" -> " " [] OTHER -> ""
RECURSIVE Unquote(_)
Unquote(raw) ==
    IF raw = <<>> THEN <<>>
    ELSE IF Head(raw) = "%" /\ Len(raw) >= 2 /\ HexChar(raw[2]) # ""
    THEN <<HexChar(raw[2])>> \o Unquote(SubSeq(raw, 3, Len(raw)))
    ELSE <<Head(raw)>> \o Unquote(Tail(raw))

\* ----------------------------------------------------------- record codec
\* A message object as the management API returns it and as a backup line
\* holds it: mid is properties.message_id ("" when absent or empty), pf says
\* which payload field the object has, val is that field's string.
Obj(mid, pf, val) == [mid |-> mid, pf |-> pf, val |-> val]

MsgA   == Obj("m1", "payload", "a")
MsgA2  == Obj("m1", "payload", "b")
MsgB   == Obj("", "payload", "a")
MsgBb  == Obj("", "payload_bytes", "YQ==")
MsgC   == Obj("", "payload", "b")
MsgK   == Obj("", "none", "")
MsgX   == Obj("", "payload_bytes", "YQ")
\* An element of a read response that is not a JSON object (null, a number).
NotDict == Obj("", "notdict", "")
IsDict(m) == m.pf # "notdict"

\* json.dumps(m) + "\n": a line that parses back to m.
JsonDumps(m) == [json |-> TRUE, obj |-> m]
\* A line that is not JSON (json.loads raises JSONDecodeError).
GarbageLine == [json |-> FALSE, obj |-> MsgK]
JsonValid(line) == line.json
JsonLoads(line) == line.obj

\* str.encode(): the UTF-8 bytes of a payload string.
Encode(s) == CASE s = "a" -> <<97>>
               [] s = "b" -> <<98>>
               [] s = "YQ==" -> <<89, 81, 61, 61>>
               [] s = "Yg==" -> <<89, 103, 61, 61>>
               [] s = "YQ" -> <<89, 81>>
               [] OTHER -> <<>>

\* base64.b64decode(): "YQ" has incorrect padding and raises binascii.Error.
B64Valid(s) == s \in {"YQ==", "Yg=="}
B64Decode(s) == CASE s = "YQ==" -> <<97>>
                  [] s = "Yg==" -> <<98>>
                  [] OTHER -> <<>>

\* What a failing or succeeding call yields: err is "none" or the exception.
Ok(v) == [err |-> "none", val |-> v]
Raise(e, v) == [err |-> e, val |-> v]

NoFp == [tag |-> "", mid |-> "", sha |-> <<>>]

FingerprintNoDecode(msg) ==
    IF msg.mid # ""
    THEN Ok([tag |-> "id:", mid |-> msg.mid, sha |-> <<>>])
    ELSE IF msg.pf = "none"
    THEN Raise("KeyError", NoFp)
    ELSE Ok([tag |-> "sha:", mid |-> "", sha |-> Encode(msg.val)])

\* _fingerprint(msg): "id:" + message_id when the id is truthy, else
\* "sha:" + sha256(body); msg[payload_field] raises KeyError when neither
\* payload field is present. The hash is modelled as injective.
Fingerprint(msg) ==
    IF msg.mid # ""
    THEN Ok([tag |-> "id:", mid |-> msg.mid, sha |-> <<>>])
    ELSE IF msg.pf = "payload"
    THEN Ok([tag |-> "sha:", mid |-> "", sha |-> Encode(msg.val)])
    ELSE IF msg.pf = "none"
    THEN Raise("KeyError", NoFp)
    ELSE IF ~B64Valid(msg.val)
    THEN Raise("binascii.Error", NoFp)
    ELSE Ok([tag |-> "sha:", mid |-> "", sha |-> B64Decode(msg.val)])

\* ------------------------------------------------------------------ paths
\* pathlib's suffix: from the last "." of the name, unless that dot is the
\* first or the last character; with_suffix replaces it (or appends).
LastDot(name) ==
    LET dots == {i \in 1..Len(name) : name[i] = "."}
    IN IF dots = {} THEN 0 ELSE CHOOSE i \in dots : \A j \in dots : j <= i

WithSuffix(name, suffix) ==
    LET i == LastDot(name)
    IN IF i > 1 /\ i < Len(name)
       THEN SubSeq(name, 1, i - 1) \o suffix
       ELSE name \o suffix

\* A path is <<directory name, file name>>.
PathWithSuffix(path, suffix) == <<path[1], WithSuffix(path[2], suffix)>>

Exists(files, path) == path \in DOMAIN files
OpenAppend(files, path) ==
    [p \in DOMAIN files \cup {path} |-> IF p \in DOMAIN files THEN files[p] ELSE <<>>]

\* gzip.open(path, "wt"): create or truncate.
OpenWrite(files, path) ==
    [p \in DOMAIN files \cup {path} |-> IF p = path THEN <<>> ELSE files[p]]
Append1(files, path, line) ==
    [files EXCEPT ![path] = Append(@, line)]
\* shutil.move(src, dst) for files: dst is replaced, src is gone.
Move(files, src, dst) ==
    IF src = dst THEN files
    ELSE [p \in (DOMAIN files \ {src}) \cup {dst} |->
             IF p = dst THEN files[src] ELSE files[p]]
Unlink(files, path) == [p \in DOMAIN files \ {path} |-> files[p]]

VARIABLES
    fs,          \* the file system
    dpath,       \* dedup_file: path
    inplace,     \* dedup_file: inplace
    dpc,         \* dedup_file: where the call is
    di,          \* dedup_file: index of the next line of src
    total_read,  \* dedup_file: total_read
    kept,        \* dedup_file: kept
    seen,        \* dedup_file: seen
    run,         \* 0: no dedup run yet, 1: first run, 2: a run on the first run's output
    orig,        \* the path and content given to the first run
    first,       \* the output and the count of the first run
    broker,      \* what the management API answers to the reads of the drain,
                 \* and what it has answered so far (reads, largest response)
    drain,       \* export_queue: the locals of the one call the drain specifications follow
    api,         \* what the management API answers to /overview and /queues?page=
    lst,         \* list_queues / iter_queue_pages: page, queues, where the call is
    ex,          \* export_all: its locals and where the call is
    work,        \* export_all: the queue.Queue work (items, unfinished_tasks)
    wk,          \* export_all: each worker thread's position and its export_queue call
    calls,       \* how many export_queue calls each queue has had
    iargs,       \* import_all: args
    imp,         \* import_all: its locals and where the call is
    conn_cache,  \* import_all: conn_cache, the connections opened and closed, and
                 \* the transport faults the link to the destination still has in store
    dest,        \* the destination broker: the messages of each queue
    prior,       \* the backup file an earlier export left, as it was before the drain
    pair         \* two records and what _fingerprint has returned for them

dvars == <<dpath, inplace, dpc, di, total_read, kept, seen, run, orig, first>>
xvars == <<broker, drain>>
cvars == <<api, lst, ex, work, wk, calls>>
ivars == <<iargs, imp, conn_cache, dest>>
hvars == <<prior, pair>>
vars == <<fs, dvars, xvars, cvars, ivars, hvars>>
notDedup == <<xvars, cvars, ivars, hvars>>
notDrain == <<dvars, cvars, ivars, hvars>>
notExport == <<dvars, xvars, ivars, hvars>>
notImport == <<dvars, xvars, cvars, hvars>>

\* ------------------------------------------------------------- dedup_file
TmpPathInPlace(path, inpl) ==
    IF inpl THEN path ELSE PathWithSuffix(path, <<".", "dedup", ".", "jsonl", ".", "gz">>)

\* tmp_path of dedup_file.
TmpPath(path, inpl) ==
    IF ~inpl
    THEN PathWithSuffix(path, <<".", "dedup", ".", "jsonl", ".", "gz">>)
    ELSE PathWithSuffix(path, <<".", "tmp">>)

DedupIdle ==
    /\ dpath = <<>> /\ inplace = FALSE /\ dpc = "idle" /\ di = 0
    /\ total_read = 0 /\ kept = 0 /\ seen = {} /\ run = 0
    /\ orig = [path |-> <<>>, content |-> <<>>, there |-> FALSE]
    /\ first = [out |-> <<>>, kept |-> 0, pc |-> "idle"]

\* The call dedup_file(path, inpl) begins.
DedupCall(path, inpl, files) ==
    /\ dpath' = path
    /\ inplace' = inpl
    /\ dpc' = "start"
    /\ di' = 1
    /\ total_read' = 0
    /\ kept' = 0
    /\ seen' = {}

\* if not path.exists(): log and return.
DedupNotFound ==
    /\ dpc = "start"
    /\ ~Exists(fs, dpath)
    /\ dpc' = "notfound"
    /\ UNCHANGED <<fs, dpath, inplace, di, total_read, kept, seen, run, orig, first>>
    /\ UNCHANGED notDedup

\* with gzip.open(path, "rt") as src, gzip.open(tmp_path, "wt") as dst
DedupOpen ==
    /\ dpc = "start"
    /\ Exists(fs, dpath)
    /\ fs' = OpenWrite(fs, TmpPath(dpath, inplace))
    /\ dpc' = "loop"
    /\ UNCHANGED <<dpath, inplace, di, total_read, kept, seen, run, orig, first>>
    /\ UNCHANGED notDedup

KeptAfterCountAllLines(k, isNew) == k + 1

\* kept after one parsed line: counted only when the line is written.
KeptAfter(k, isNew) == IF isNew THEN k + 1 ELSE k

\* One iteration of "for line in src".
DedupLine ==
    /\ dpc = "loop"
    /\ di <= Len(fs[dpath])
    /\ LET line == fs[dpath][di]
           fp == Fingerprint(JsonLoads(line))
       IN /\ total_read' = total_read + 1
          /\ di' = di + 1
          /\ IF ~JsonValid(line)
             THEN \* except json.JSONDecodeError: continue
                  UNCHANGED <<fs, kept, seen, dpc>>
             ELSE IF fp.err # "none"
             THEN \* KeyError and binascii.Error are not caught: the call ends
                  /\ dpc' = "raised"
                  /\ UNCHANGED <<fs, kept, seen>>
             ELSE /\ kept' = KeptAfter(kept, fp.val \notin seen)
                  /\ IF fp.val \in seen
                     THEN UNCHANGED <<fs, seen>>
                     ELSE /\ seen' = seen \cup {fp.val}
                          /\ fs' = Append1(fs, TmpPath(dpath, inplace), line)
                  /\ UNCHANGED dpc
    /\ UNCHANGED <<dpath, inplace, run, orig, first>>
    /\ UNCHANGED notDedup

\* The loop is over: if inplace: shutil.move(tmp_path, path); the summary.
DedupEnd ==
    /\ dpc = "loop"
    /\ di > Len(fs[dpath])
    /\ fs' = IF inplace THEN Move(fs, TmpPath(dpath, inplace), dpath) ELSE fs
    /\ dpc' = "done"
    /\ UNCHANGED <<dpath, inplace, di, total_read, kept, seen, run, orig, first>>
    /\ UNCHANGED notDedup

\* The artifact a finished or aborted call has written.
DedupOutputPath ==
    IF inplace /\ dpc = "done" THEN dpath ELSE TmpPath(dpath, inplace)
DedupOutput == fs[DedupOutputPath]

\* dedup is run again, on what the first run produced: the file itself after
\* an in-place run, the sibling file otherwise.
DedupAgain ==
    /\ run = 1
    /\ dpc \in {"done", "raised"}
    /\ run' = 2
    /\ first' = [out |-> DedupOutput, kept |-> kept, pc |-> dpc]
    /\ DedupCall(IF inplace THEN dpath ELSE TmpPath(dpath, inplace), inplace, fs)
    /\ UNCHANGED <<fs, orig>>
    /\ UNCHANGED notDedup

\* ------------------------------------------------- parts that are not running
NoPages == [pages |-> <<>>, failAt |-> 0, overview_ok |-> TRUE]
ListIdleRec == [pc |-> "idle", page |-> 1, queues |-> <<>>, requested |-> <<>>]
ExIdleRec == [pc |-> "idle", queues |-> <<>>, non_empty |-> <<>>, vhost |-> {},
              parallel |-> 0, started |-> 0, errors |-> 0]
ExportIdle ==
    /\ api = NoPages /\ lst = ListIdleRec /\ ex = ExIdleRec
    /\ work = [items |-> <<>>, unfinished |-> 0]
    /\ wk = <<>> /\ calls = <<>>

\* visited: the files the loop over the glob has reached; served: the
\* (vhost, queue) pairs channel_for was called for.
ImpIdleRec == [pc |-> "idle", vtodo |-> {}, vdir |-> <<>>, ftodo |-> {}, f |-> <<>>,
               qname |-> <<>>, vhost |-> <<>>, idx |-> 0, total |-> 0,
               visited |-> {}, served |-> {}]
NoArgs == [declare_queue |-> FALSE, legacy_sanitize |-> FALSE, vhost |-> {},
           indir_exists |-> TRUE]
NoConns == [open |-> {}, opened |-> 0, closed |-> 0, faults |-> 0]
ImportIdle ==
    /\ iargs = NoArgs /\ imp = ImpIdleRec /\ conn_cache = NoConns /\ dest = <<>>

NoPrior == [there |-> FALSE, content |-> <<>>]
NoPair == [pc |-> "idle", r1 |-> Obj("", "none", ""), r2 |-> Obj("", "none", ""),
           f1 |-> Raise("", NoFp), f2 |-> Raise("", NoFp)]
PairIdle == pair = NoPair

\* ----------------------------------------------------------- export_queue
QInfo(vhost, name, messages) == [vhost |-> vhost, name |-> name, messages |-> messages]

\* out_path = out_dir / v_enc / (q_enc + SUFFIX)
OutPath(qi) == <<Quote(qi.vhost), Quote(qi.name) \o SUFFIX>>

\* os.stat().st_size of a gzip file: the header and the trailer are written
\* even when no line was.
StSize(lines) == Len(lines) + 1

NoQueue == QInfo(<<>>, <<>>, 0)
DrainIdleRec ==
    [pc |-> "idle", qi |-> NoQueue, saved |-> 0, consecutive_empty |-> 0]

\* export_queue(qinfo) up to the with statement: an empty queue is skipped.
ExportQueueCall(qi) ==
    [DrainIdleRec EXCEPT !.qi = qi,
                         !.pc = IF qi.messages = 0 THEN "skipped" ELSE "open"]

\* mkdir and gzip.open(out_path, "wt"): the file is created or truncated; an
\* OSError leaves export_queue.
DrainOpened(d, files, ok) ==
    IF ok
    THEN [d |-> [d EXCEPT !.pc = "loop"], fs |-> OpenWrite(files, OutPath(d.qi))]
    ELSE [d |-> [d EXCEPT !.pc = "raised"], fs |-> files]

\* A read response: an error (transport, non-2xx, undecodable body) or a list.
ErrorResp == [kind |-> "error", msgs |-> <<>>]
Msgs(ms) == [kind |-> "msgs", msgs |-> ms]

\* A message is written when it is a non-empty dict with a payload field.
Eligible(m) == IsDict(m) /\ m.pf \in {"payload", "payload_bytes"}

RECURSIVE WrittenLines(_)
WrittenLines(ms) ==
    IF ms = <<>> THEN <<>>
    ELSE (IF Eligible(Head(ms)) THEN <<JsonDumps(Head(ms))>> ELSE <<>>)
         \o WrittenLines(Tail(ms))

OnReadErrorRetry(d) == d

\* except ...: log and break.
OnReadError(d) == [d EXCEPT !.pc = "after"]

AfterNonEmptyKeep(ce) == ce

\* consecutive_empty = 0 after a response that is not empty.
AfterNonEmpty(ce) == 0

EmptyStopLate(ce) == ce > max_empty_attempts

\* if consecutive_empty >= max_empty_attempts: break
EmptyStop(ce) == ce >= max_empty_attempts

\* One pass of the body of "while saved < expected" with response resp.
DrainRead(d, files, resp) ==
    LET path == OutPath(d.qi)
        d1 == d
    IN IF resp.kind = "error"
       THEN [d |-> OnReadError(d1), fs |-> files]
       ELSE IF resp.msgs = <<>>
       THEN [d |-> [d1 EXCEPT !.consecutive_empty = @ + 1,
                              !.pc = IF EmptyStop(d.consecutive_empty + 1)
                                     THEN "after" ELSE "loop"],
             fs |-> files]
       ELSE LET lines == WrittenLines(resp.msgs)
                n == d.saved + Len(lines)
            IN [d |-> [d1 EXCEPT !.consecutive_empty = AfterNonEmpty(@),
                                 !.saved = n,
                                 !.pc = IF n < d.qi.messages THEN "loop" ELSE "after"],
                fs |-> [files EXCEPT ![path] = @ \o lines]]

\* After the with statement: a file is removed when nothing was saved and
\* its size is 0.
DrainFinished(d, files) ==
    LET path == OutPath(d.qi)
    IN [d |-> [d EXCEPT !.pc = "done"],
        fs |-> IF d.saved = 0 /\ Exists(files, path) /\ StSize(files[path]) = 0
               THEN Unlink(files, path) ELSE files]

\* ------------------------------------------ the drain of one queue, as steps
DrainCorpus == {MsgA, MsgBb, MsgK, NotDict}
AnyResponses ==
    {ErrorResp} \cup {Msgs(ms) : ms \in SeqsUpTo(DrainCorpus, MaxBatch)}

\* The broker has answered one more read: how many it has answered, the
\* largest response, the kind of the last one and the number of empty
\* responses in a row up to it.
Answered(b, resp) ==
    [b EXCEPT !.reads = @ + 1,
              !.maxresp = IF Len(resp.msgs) > @ THEN Len(resp.msgs) ELSE @,
              !.last = IF resp.kind = "error" THEN "error"
                       ELSE IF resp.msgs = <<>> THEN "empty" ELSE "msgs",
              !.streak = IF resp.kind = "error" THEN @
                         ELSE IF resp.msgs = <<>> THEN @ + 1 ELSE 0]

\* What the API may answer to the next read of the drain.
Responses ==
    IF broker.kind = "requeue"
    THEN {Msgs(<<m>>) : m \in broker.resident}
    ELSE IF broker.reads >= broker.nprime
    THEN {Msgs(<<>>)}
    ELSE AnyResponses

XOpen ==
    /\ drain.pc = "open"
    /\ \E ok \in BOOLEAN :
         LET r == DrainOpened(drain, fs, ok)
         IN drain' = r.d /\ fs' = r.fs
    /\ UNCHANGED <<broker, notDrain>>

XRead ==
    /\ drain.pc = "loop"
    /\ \E resp \in Responses :
         LET r == DrainRead(drain, fs, resp)
         IN /\ drain' = r.d
            /\ fs' = r.fs
            /\ broker' = Answered(broker, resp)
    /\ UNCHANGED notDrain

XFinish ==
    /\ drain.pc = "after"
    /\ LET r == DrainFinished(drain, fs)
       IN drain' = r.d /\ fs' = r.fs
    /\ UNCHANGED <<broker, notDrain>>

NoBroker == [kind |-> "none", nprime |-> 0, resident |-> {}, reads |-> 0, maxresp |-> 0,
             last |-> "none", streak |-> 0]
DrainIdle == drain = DrainIdleRec /\ broker = NoBroker

\* A queue of any advertised count, a read stream that is empty from read
\* nprime + 1 on, and possibly a backup file of an earlier export.
DrainQueues == {QInfo(<<"/">>, <<"q">>, n) : n \in 0..MaxExpected}
OldLine == JsonDumps(Obj("old", "payload", "b"))

InitDrain ==
    /\ DedupIdle
    /\ ExportIdle
    /\ ImportIdle
    /\ PairIdle
    /\ \E qi \in DrainQueues, extra \in 0..MaxExtra, old \in BOOLEAN :
         /\ drain = ExportQueueCall(qi)
         /\ broker = [NoBroker EXCEPT !.kind = "any", !.nprime = qi.messages + extra]
         /\ fs = IF old THEN (OutPath(qi) :> <<OldLine>>) ELSE <<>>
         /\ prior = [there |-> old, content |-> IF old THEN <<OldLine>> ELSE <<>>]

NextDrain == XOpen \/ XRead \/ XFinish

SpecDrain == InitDrain /\ [][NextDrain]_vars

\* ------------------------------------------ the drain of an endless stream
\* What an endless read stream may answer to each read: an error, nothing,
\* an eligible record, or a record without payload field.
PollResponses ==
    {ErrorResp, Msgs(<<>>), Msgs(<<MsgA>>), Msgs(<<MsgBb>>), Msgs(<<MsgK>>)}

\* The stream has answered one more read; the reads of an endless stream
\* are not counted.
Polled(b, resp) == [Answered(b, resp) EXCEPT !.reads = b.reads]

XPoll ==
    /\ drain.pc = "loop"
    /\ \E resp \in PollResponses :
         LET r == DrainRead(drain, fs, resp)
         IN /\ drain' = r.d
            /\ fs' = r.fs
            /\ broker' = Polled(broker, resp)
    /\ UNCHANGED notDrain

PollQueues == {QInfo(<<"/">>, <<"q">>, n) : n \in 1..MaxExpected}

InitPoll ==
    /\ DedupIdle
    /\ ExportIdle
    /\ ImportIdle
    /\ PairIdle
    /\ \E qi \in PollQueues, old \in BOOLEAN :
         /\ drain = ExportQueueCall(qi)
         /\ broker = [NoBroker EXCEPT !.kind = "poll"]
         /\ fs = IF old THEN (OutPath(qi) :> <<OldLine>>) ELSE <<>>
         /\ prior = [there |-> old, content |-> IF old THEN <<OldLine>> ELSE <<>>]

NextPoll == XOpen \/ XPoll \/ XFinish

\* The thread of export_queue keeps running and every request is answered.
SpecPoll == InitPoll /\ [][NextPoll]_vars /\ WF_vars(NextPoll)

\* ------------------------------------------- iter_queue_pages, list_queues
\* sess.get(url) and r.raise_for_status() for /queues?page=p: the page fails
\* (transport error, non-2xx), or it is the p-th page, empty past the last.
PageAnswer(a, p) ==
    IF p = a.failAt THEN Raise("RequestException", <<>>)
    ELSE IF p <= Len(a.pages) THEN Ok(a.pages[p])
    ELSE Ok(<<>>)

LastPageOffByOne(items) == Len(items) <= MAX_PAGE_SIZE

\* if len(items) < MAX_PAGE_SIZE: break
LastPage(items) == Len(items) < MAX_PAGE_SIZE

PageErrorSwallowed(l) == [l EXCEPT !.pc = "returned"]

\* An exception of sess.get or raise_for_status leaves list_queues.
PageError(l) == [l EXCEPT !.pc = "raised"]

\* One pass of the loop of iter_queue_pages, with queues.extend(page).
ListGet ==
    /\ lst.pc = "get"
    /\ LET r == PageAnswer(api, lst.page)
           l == [lst EXCEPT !.requested = Append(@, lst.page)]
       IN lst' = IF r.err # "none" THEN PageError(l)
                 ELSE IF r.val = <<>> THEN [l EXCEPT !.pc = "returned"]
                 ELSE IF LastPage(r.val)
                 THEN [l EXCEPT !.queues = @ \o r.val, !.pc = "returned"]
                 ELSE [l EXCEPT !.queues = @ \o r.val, !.page = @ + 1]
    /\ UNCHANGED <<fs, api, ex, work, wk, calls, notExport>>

\* -------------------------------------------------------------- export_all
Range(seq) == {seq[i] : i \in 1..Len(seq)}

\* The overview request: on failure export_all logs and returns.
ExportOverview ==
    /\ ex.pc = "overview"
    /\ IF api.overview_ok
       THEN /\ ex' = [ex EXCEPT !.pc = "list"]
            /\ lst' = [ListIdleRec EXCEPT !.pc = "get"]
       ELSE /\ ex' = [ex EXCEPT !.pc = "aborted"]
            /\ UNCHANGED lst
    /\ UNCHANGED <<fs, api, work, wk, calls, notExport>>

\* list_queues raised: the exception leaves export_all.
ExportListFailed ==
    /\ ex.pc = "list"
    /\ lst.pc = "raised"
    /\ ex' = [ex EXCEPT !.pc = "raised"]
    /\ UNCHANGED <<fs, api, lst, work, wk, calls, notExport>>

VhostFilter(queues, vhosts) ==
    IF vhosts # {} THEN SelectSeq(queues, LAMBDA q : q.vhost \in vhosts) ELSE queues

\* non_empty_queues = [q for q in queues if q.get("messages", 0) > 0]
NonEmpty(queues) == SelectSeq(queues, LAMBDA q : q.messages > 0)

\* list_queues returned: the vhost filter, the non-empty queues, and either
\* the return for want of any or work.put(q) for each.
ExportSchedule ==
    /\ ex.pc = "list"
    /\ lst.pc = "returned"
    /\ LET queues == VhostFilter(lst.queues, ex.vhost)
           non_empty == NonEmpty(queues)
       IN /\ ex' = [ex EXCEPT !.queues = queues,
                              !.non_empty = non_empty,
                              !.pc = IF non_empty = <<>> THEN "nothing" ELSE "start"]
          /\ work' = IF non_empty = <<>> THEN work
                     ELSE [items |-> non_empty, unfinished |-> Len(non_empty)]
          /\ calls' = [q \in Range(lst.queues) |-> 0]
          /\ wk' = IF non_empty = <<>> THEN wk
                   ELSE [w \in 1..ex.parallel |-> [pc |-> "unstarted", d |-> DrainIdleRec]]
    /\ UNCHANGED <<fs, api, lst, notExport>>

\* for t in threads: t.start()
ExportStartThread ==
    /\ ex.pc = "start"
    /\ ex.started < ex.parallel
    /\ ex' = [ex EXCEPT !.started = @ + 1]
    /\ wk' = [wk EXCEPT ![ex.started + 1].pc = "get"]
    /\ UNCHANGED <<fs, api, lst, work, calls, notExport>>

JoinReadyWhenEmpty(wq) == wq.items = <<>>

\* work.join() returns when unfinished_tasks is 0.
JoinReady(wq) == wq.unfinished = 0

\* work.join() has returned; "Export finished" is logged.
ExportJoin ==
    /\ ex.pc = "start"
    /\ ex.started = ex.parallel
    /\ JoinReady(work)
    /\ ex' = [ex EXCEPT !.pc = "finished"]
    /\ UNCHANGED <<fs, api, lst, work, wk, calls, notExport>>

WorkPeek(items) == items

\* work.get_nowait() removes the item it returns.
WorkPop(items) == Tail(items)

\* worker: qi = work.get_nowait(), or the thread ends on queue.Empty; then
\* export_queue(qi) begins.
WorkerGet(w) ==
    /\ wk[w].pc = "get"
    /\ IF work.items = <<>>
       THEN /\ wk' = [wk EXCEPT ![w].pc = "exited"]
            /\ UNCHANGED <<work, calls>>
       ELSE LET qi == Head(work.items)
            IN /\ work' = [work EXCEPT !.items = WorkPop(@)]
               /\ wk' = [wk EXCEPT ![w] = [pc |-> "export", d |-> ExportQueueCall(qi)]]
               /\ calls' = [calls EXCEPT ![qi] = @ + 1]
    /\ UNCHANGED <<fs, api, lst, ex, notExport>>

\* What the API answers to a read of a worker's drain: an error, nothing,
\* or one message.
WorkerResponses == {ErrorResp, Msgs(<<>>), Msgs(<<MsgA>>)}

WorkerOpen(w) ==
    /\ wk[w].pc = "export"
    /\ wk[w].d.pc = "open"
    /\ \E ok \in BOOLEAN :
         LET r == DrainOpened(wk[w].d, fs, ok)
         IN wk' = [wk EXCEPT ![w].d = r.d] /\ fs' = r.fs
    /\ UNCHANGED <<api, lst, ex, work, calls, notExport>>

WorkerRead(w) ==
    /\ wk[w].pc = "export"
    /\ wk[w].d.pc = "loop"
    /\ \E resp \in WorkerResponses :
         LET r == DrainRead(wk[w].d, fs, resp)
         IN wk' = [wk EXCEPT ![w].d = r.d] /\ fs' = r.fs
    /\ UNCHANGED <<api, lst, ex, work, calls, notExport>>

\* The loop of export_queue is over: the file is closed, an empty one
\* removed, export_queue returns; finally: work.task_done(), and the worker
\* loops.
WorkerFinish(w) ==
    /\ wk[w].pc = "export"
    /\ wk[w].d.pc = "after"
    /\ fs' = DrainFinished(wk[w].d, fs).fs
    /\ work' = [work EXCEPT !.unfinished = @ - 1]
    /\ wk' = [wk EXCEPT ![w] = [pc |-> "get", d |-> DrainIdleRec]]
    /\ UNCHANGED <<api, lst, ex, calls, notExport>>

\* export_queue raised: the worker logs the error; finally:
\* work.task_done(), and the worker loops.
WorkerTaskDone(w) ==
    /\ wk[w].pc = "export"
    /\ wk[w].d.pc = "raised"
    /\ work' = [work EXCEPT !.unfinished = @ - 1]
    /\ ex' = [ex EXCEPT !.errors = @ + 1]
    /\ wk' = [wk EXCEPT ![w] = [pc |-> "get", d |-> DrainIdleRec]]
    /\ UNCHANGED <<fs, api, lst, calls, notExport>>

\* ---------------------------------------------------- export specification
\* The advertised counts of the queues of the threaded export: a queue is
\* empty or holds one message (the drain of larger queues is followed by the
\* drain specification).
ExportCounts == {0, 1}

ExportNames == <<QInfo(<<"/">>, <<"q">>, 0), QInfo(<<"v">>, <<"q">>, 0),
                 QInfo(<<"v">>, <<"a", "/", "b">>, 0)>>

RECURSIVE Paginate(_)
Paginate(queues) ==
    IF Len(queues) <= MAX_PAGE_SIZE
    THEN IF queues = <<>> THEN <<>> ELSE <<queues>>
    ELSE <<SubSeq(queues, 1, MAX_PAGE_SIZE)>>
         \o Paginate(SubSeq(queues, MAX_PAGE_SIZE + 1, Len(queues)))

\* The broker holds three queues of any advertised counts, listed in pages;
\* one page request may fail.
InitExport ==
    /\ DedupIdle
    /\ DrainIdle
    /\ ImportIdle
    /\ prior = NoPrior
    /\ PairIdle
    /\ fs = <<>>
    /\ \E counts \in [1..Len(ExportNames) -> ExportCounts],
          failAt \in 0..MaxPages, ok \in BOOLEAN :
         api = [pages |-> Paginate([i \in 1..Len(ExportNames) |->
                                      [ExportNames[i] EXCEPT !.messages = counts[i]]]),
                failAt |-> failAt, overview_ok |-> ok]
    /\ lst = ListIdleRec
    /\ \E par \in 1..MaxParallel, vh \in {{}, {<<"v">>}} :
         ex = [ExIdleRec EXCEPT !.pc = "overview", !.parallel = par, !.vhost = vh]
    /\ work = [items |-> <<>>, unfinished |-> 0]
    /\ wk = <<>>
    /\ calls = <<>>

NextExport ==
    \/ ExportOverview
    \/ ListGet
    \/ ExportListFailed
    \/ ExportSchedule
    \/ ExportStartThread
    \/ ExportJoin
    \/ \E w \in DOMAIN wk : WorkerGet(w)
    \/ \E w \in DOMAIN wk : WorkerOpen(w)
    \/ \E w \in DOMAIN wk : WorkerRead(w)
    \/ \E w \in DOMAIN wk : WorkerFinish(w)
    \/ \E w \in DOMAIN wk : WorkerTaskDone(w)

\* Every thread that can run does run, and every request is answered.
SpecExport == InitExport /\ [][NextExport]_vars /\ WF_vars(NextExport)

\* --------------------------------------------------- listing specification
PageItems == {QInfo(<<"/">>, <<"q">>, 1), QInfo(<<"v">>, <<"q">>, 0)}

InitPages ==
    /\ DedupIdle
    /\ DrainIdle
    /\ ImportIdle
    /\ prior = NoPrior
    /\ PairIdle
    /\ fs = <<>>
    /\ \E pages \in SeqsUpTo(SeqsUpTo(PageItems, MAX_PAGE_SIZE), MaxPages),
          failAt \in 0..(MaxPages + 1) :
         api = [pages |-> pages, failAt |-> failAt, overview_ok |-> TRUE]
    /\ lst = [ListIdleRec EXCEPT !.pc = "get"]
    /\ ex = ExIdleRec
    /\ work = [items |-> <<>>, unfinished |-> 0]
    /\ wk = <<>>
    /\ calls = <<>>

NextPages == ListGet

SpecPages == InitPages /\ [][NextPages]_vars

\* ------------------------------------------------------------- import_all
StartsWith(name, prefix) ==
    Len(name) >= Len(prefix) /\ SubSeq(name, 1, Len(prefix)) = prefix
EndsWith(name, suffix) ==
    Len(name) >= Len(suffix)
    /\ SubSeq(name, Len(name) - Len(suffix) + 1, Len(name)) = suffix

decode_legacy_vhost(raw, legacy) ==
    IF raw = <<"%", "2F">> THEN <<"/">>
    ELSE IF legacy /\ raw = <<"_">> THEN <<"/">>
    ELSE Unquote(raw)

decode_legacy_queue(raw, legacy) ==
    IF legacy /\ raw = <<"_">> THEN <<"_">> ELSE Unquote(raw)

ReservedExact(qname) == qname \in RESERVED_PREFIXES

\* qname.startswith(RESERVED_PREFIXES)
Reserved(qname) == \E pre \in RESERVED_PREFIXES : StartsWith(qname, pre)

\* The body and the properties basic_publish is given for a backup line, or
\* the exception the line raises; import_all catches all three.
Publishable(line) ==
    IF ~JsonValid(line) THEN Raise("JSONDecodeError", <<>>)
    ELSE LET obj == JsonLoads(line)
         IN IF obj.pf = "payload"
            THEN Ok([body |-> Encode(obj.val), message_id |-> obj.mid])
            ELSE IF obj.pf # "payload_bytes"
            THEN Raise("KeyError", <<>>)
            ELSE IF ~B64Valid(obj.val)
            THEN Raise("binascii.Error", <<>>)
            ELSE Ok([body |-> B64Decode(obj.val), message_id |-> obj.mid])

\* basic_publish("", qname, ...): the default exchange routes to the queue
\* of that name and drops the message when there is none.
Publish(broker_queues, key, msg) ==
    IF key \in DOMAIN broker_queues
    THEN [broker_queues EXCEPT ![key] = Append(@, msg)]
    ELSE broker_queues

\* queue_declare(passive=True), and on 404 queue_declare(durable=True).
Declare(broker_queues, key) ==
    IF key \in DOMAIN broker_queues
    THEN broker_queues
    ELSE [k \in DOMAIN broker_queues \cup {key} |->
             IF k = key THEN <<>> ELSE broker_queues[k]]

\* channel_for(vhost): one connection per vhost, opened on first use.
ChannelFor(cache, vhost) ==
    IF vhost \in cache.open THEN cache
    ELSE [cache EXCEPT !.open = @ \cup {vhost}, !.opened = @ + 1]

\* if not in_dir.exists(): return; else the walk over in_dir begins.
ImportStart ==
    /\ imp.pc = "start"
    /\ imp' = IF iargs.indir_exists
              THEN [imp EXCEPT !.pc = "vdirs", !.vtodo = {pth[1] : pth \in DOMAIN fs}]
              ELSE [imp EXCEPT !.pc = "notfound"]
    /\ UNCHANGED <<fs, iargs, conn_cache, dest, notImport>>

\* for vdir in in_dir.iterdir(): the vhost filter, then the glob of the files.
ImportVdir ==
    /\ imp.pc = "vdirs"
    /\ \E v \in imp.vtodo :
         LET vhost == decode_legacy_vhost(v, iargs.legacy_sanitize)
             skip == iargs.vhost # {} /\ vhost \notin iargs.vhost
         IN imp' = [imp EXCEPT !.vtodo = @ \ {v},
                               !.vdir = v,
                               !.vhost = vhost,
                               !.pc = IF skip THEN "vdirs" ELSE "files",
                               !.ftodo = IF skip THEN {}
                                         ELSE {pth \in DOMAIN fs :
                                                 pth[1] = v /\ EndsWith(pth[2], SUFFIX)}]
    /\ UNCHANGED <<fs, iargs, conn_cache, dest, notImport>>

\* A transport fault (connection refused or lost) has been spent.
Faulted(cache) == [cache EXCEPT !.faults = @ - 1]

\* How the calls of one file's set-up may go: all succeed, the connection
\* of channel_for fails, or queue_declare fails with a transport error.
FileOutcomes ==
    IF conn_cache.faults = 0 THEN {"ok"}
    ELSE {"ok", "connect"} \cup (IF iargs.declare_queue THEN {"declare"} ELSE {})

\* for f in vdir.glob(...): the name, the reserved-prefix skip, the channel
\* and the declaration of the queue. No handler encloses channel_for and
\* queue_declare for transport errors: they leave import_all.
ImportFile ==
    /\ imp.pc = "files"
    /\ \E f \in imp.ftodo, how \in FileOutcomes :
         LET raw_name == SubSeq(f[2], 1, Len(f[2]) - Len(SUFFIX))
             qname == decode_legacy_queue(raw_name, iargs.legacy_sanitize)
             at == [imp EXCEPT !.ftodo = @ \ {f}, !.visited = @ \cup {f}]
             on == [at EXCEPT !.f = f, !.qname = qname, !.idx = 1, !.total = 0,
                              !.served = @ \cup {<<imp.vhost, qname>>}]
         IN IF Reserved(qname)
            THEN /\ imp' = at
                 /\ UNCHANGED <<conn_cache, dest>>
            ELSE IF how = "connect"
            THEN /\ imp' = [on EXCEPT !.pc = "raised"]
                 /\ conn_cache' = Faulted(conn_cache)
                 /\ UNCHANGED dest
            ELSE IF how = "declare"
            THEN /\ imp' = [on EXCEPT !.pc = "raised"]
                 /\ conn_cache' = Faulted(ChannelFor(conn_cache, imp.vhost))
                 /\ UNCHANGED dest
            ELSE /\ imp' = [on EXCEPT !.pc = "lines"]
                 /\ conn_cache' = ChannelFor(conn_cache, imp.vhost)
                 /\ dest' = IF iargs.declare_queue
                            THEN Declare(dest, <<imp.vhost, qname>>) ELSE dest
    /\ UNCHANGED <<fs, iargs, notImport>>

\* One iteration of "for line in gz": the three exceptions of a bad line
\* are caught, a transport error of basic_publish is not.
ImportLine ==
    /\ imp.pc = "lines"
    /\ imp.idx <= Len(fs[imp.f])
    /\ LET m == Publishable(fs[imp.f][imp.idx])
       IN IF m.err = "none"
          THEN \E fault \in (IF conn_cache.faults = 0 THEN {FALSE} ELSE BOOLEAN) :
                 IF fault
                 THEN /\ imp' = [imp EXCEPT !.pc = "raised"]
                      /\ conn_cache' = Faulted(conn_cache)
                      /\ UNCHANGED dest
                 ELSE /\ dest' = Publish(dest, <<imp.vhost, imp.qname>>, m.val)
                      /\ imp' = [imp EXCEPT !.idx = @ + 1, !.total = @ + 1]
                      /\ UNCHANGED conn_cache
          ELSE /\ imp' = [imp EXCEPT !.idx = @ + 1]
               /\ UNCHANGED <<dest, conn_cache>>
    /\ UNCHANGED <<fs, iargs, notImport>>

\* The file is read to its end.
ImportFileEnd ==
    /\ imp.pc = "lines"
    /\ imp.idx > Len(fs[imp.f])
    /\ imp' = [imp EXCEPT !.pc = "files"]
    /\ UNCHANGED <<fs, iargs, conn_cache, dest, notImport>>

\* The glob of this vdir is exhausted.
ImportVdirEnd ==
    /\ imp.pc = "files"
    /\ imp.ftodo = {}
    /\ imp' = [imp EXCEPT !.pc = "vdirs"]
    /\ UNCHANGED <<fs, iargs, conn_cache, dest, notImport>>

\* for conn in conn_cache.values(): conn.close()
ImportClose ==
    /\ imp.pc = "vdirs"
    /\ imp.vtodo = {}
    /\ conn_cache' = [conn_cache EXCEPT !.open = {},
                                        !.closed = @ + Cardinality(conn_cache.open)]
    /\ imp' = [imp EXCEPT !.pc = "done"]
    /\ UNCHANGED <<fs, iargs, dest, notImport>>

\* ------------------------------------------- export, dedup, import in a row
Msg1 == Obj("m1", "payload", "a")
Msg2 == Obj("m2", "payload", "b")
Msg3 == Obj("m3", "payload_bytes", "YQ==")
SourceQueue == QInfo(<<"/">>, <<"q">>, 3)

\* The source queue holds m1, m2, m3 and advertises 3; a read returns one of
\* them and requeues it. The destination queue exists and is empty.
InitRoundTrip ==
    /\ DedupIdle
    /\ ExportIdle
    /\ prior = NoPrior
    /\ PairIdle
    /\ fs = <<>>
    /\ drain = ExportQueueCall(SourceQueue)
    /\ broker = [NoBroker EXCEPT !.kind = "requeue", !.resident = {Msg1, Msg2, Msg3}]
    /\ \E decl \in BOOLEAN, legacy \in BOOLEAN :
         iargs = [NoArgs EXCEPT !.declare_queue = decl, !.legacy_sanitize = legacy]
    /\ imp = ImpIdleRec
    /\ conn_cache = NoConns
    /\ dest = (<<SourceQueue.vhost, SourceQueue.name>> :> <<>>)

\* dedup <file> [--inplace] on the file the export has written.
RoundTripDedup ==
    /\ drain.pc = "done"
    /\ run = 0
    /\ Exists(fs, OutPath(drain.qi))
    /\ \E inpl \in BOOLEAN : DedupCall(OutPath(drain.qi), inpl, fs)
    /\ run' = 1
    /\ orig' = [path |-> OutPath(drain.qi), content |-> fs[OutPath(drain.qi)],
                there |-> TRUE]
    /\ UNCHANGED <<fs, first, notDedup>>

\* import from the directory of the export.
RoundTripImport ==
    /\ run = 1
    /\ dpc = "done"
    /\ imp.pc = "idle"
    /\ imp' = [imp EXCEPT !.pc = "start"]
    /\ UNCHANGED <<fs, iargs, conn_cache, dest, notImport>>

NextRoundTrip ==
    \/ XOpen
    \/ XRead
    \/ XFinish
    \/ RoundTripDedup
    \/ DedupOpen
    \/ DedupLine
    \/ DedupEnd
    \/ RoundTripImport
    \/ ImportStart
    \/ ImportVdir
    \/ ImportFile
    \/ ImportLine
    \/ ImportFileEnd
    \/ ImportVdirEnd
    \/ ImportClose

SpecRoundTrip == InitRoundTrip /\ [][NextRoundTrip]_vars

\* ---------------------------------------------- fingerprint specification
\* Records with and without a message id, with a text payload, a base64
\* payload (valid or not) or no payload field.
FpCorpus ==
    {Obj(mid, pf, val) : mid \in {"", "m1", "m2"}, pf \in {"payload", "payload_bytes"},
                         val \in {"a", "b", "YQ==", "Yg==", "YQ"}}
    \cup {Obj(mid, "none", "") : mid \in {"", "m1", "m2"}}

InitFingerprint ==
    /\ DedupIdle
    /\ DrainIdle
    /\ ExportIdle
    /\ ImportIdle
    /\ prior = NoPrior
    /\ fs = <<>>
    /\ \E r1 \in FpCorpus, r2 \in FpCorpus :
         pair = [NoPair EXCEPT !.pc = "start", !.r1 = r1, !.r2 = r2]

\* _fingerprint is called with each of the two records.
FingerprintPair ==
    /\ pair.pc = "start"
    /\ pair' = [pair EXCEPT !.pc = "done",
                            !.f1 = Fingerprint(pair.r1),
                            !.f2 = Fingerprint(pair.r2)]
    /\ UNCHANGED <<fs, dvars, xvars, cvars, ivars, prior>>

NextFingerprint == FingerprintPair

SpecFingerprint == InitFingerprint /\ [][NextFingerprint]_vars

\* --------------------------------------------------- import specification
\* The backup files a dump directory may hold: queues of the vhost "/" under
\* its quoted and its legacy directory name, of the vhost v, and queues with
\* reserved names, one of them written with a quoted character.
ImportFiles ==
    {<<<<"%", "2F">>, <<"q">> \o SUFFIX>>,
     <<<<"%", "2F">>, <<"amq", ".", "gen">> \o SUFFIX>>,
     <<<<"_">>, <<"q2">> \o SUFFIX>>,
     <<<<"v">>, <<"q">> \o SUFFIX>>,
     <<<<"v">>, <<"reply_", "123">> \o SUFFIX>>,
     <<<<"v">>, <<"rabbitmq", ".", "recovery", ".", "%", "2F">> \o SUFFIX>>}

\* The lines of every backup file of the directory: two messages around a
\* line that is not JSON.
ImportContent == <<JsonDumps(MsgA), GarbageLine, JsonDumps(MsgBb)>>

\* The destination broker has the queue q of "/" and a queue with a reserved
\* name, both empty.
ImportDest ==
    [key \in {<<<<"/">>, <<"q">>>>, <<<<"/">>, <<"amq", ".", "gen">>>>} |-> <<>>]

InitImport ==
    /\ DedupIdle
    /\ DrainIdle
    /\ ExportIdle
    /\ prior = NoPrior
    /\ PairIdle
    /\ \E dir \in SUBSET ImportFiles : fs = [f \in dir |-> ImportContent]
    /\ \E decl \in BOOLEAN, legacy \in BOOLEAN, there \in BOOLEAN,
          vh \in {{}, {<<"/">>}} :
         iargs = [declare_queue |-> decl, legacy_sanitize |-> legacy,
                  vhost |-> vh, indir_exists |-> there]
    /\ imp = [ImpIdleRec EXCEPT !.pc = "start"]
    /\ \E n \in 0..MaxFaults : conn_cache = [NoConns EXCEPT !.faults = n]
    /\ dest = ImportDest

NextImport ==
    \/ ImportStart
    \/ ImportVdir
    \/ ImportFile
    \/ ImportLine
    \/ ImportFileEnd
    \/ ImportVdirEnd
    \/ ImportClose

SpecImport == InitImport /\ [][NextImport]_vars

\* ---------------------------------------------------- dedup specification
DedupCorpus ==
    {JsonDumps(MsgA), JsonDumps(MsgA2), JsonDumps(MsgB), JsonDumps(MsgBb),
     JsonDumps(MsgC), JsonDumps(MsgK), JsonDumps(MsgX), GarbageLine}

DedupPaths ==
    {<<<<"v">>, <<"q">> \o SUFFIX>>, <<<<"v">>, <<"a", ".", "b">> \o SUFFIX>>}

InitDedup ==
    /\ \E p \in DedupPaths, content \in SeqsUpTo(DedupCorpus, MaxLines),
          inpl \in BOOLEAN, there \in BOOLEAN :
         /\ fs = IF there THEN (p :> content) ELSE <<>>
         /\ dpath = p
         /\ inplace = inpl
         /\ orig = [path |-> p, content |-> IF there THEN content ELSE <<>>,
                     there |-> there]
    /\ dpc = "start"
    /\ di = 1
    /\ total_read = 0
    /\ kept = 0
    /\ seen = {}
    /\ run = 1
    /\ first = [out |-> <<>>, kept |-> 0, pc |-> "idle"]
    /\ DrainIdle
    /\ ExportIdle
    /\ ImportIdle
    /\ prior = NoPrior
    /\ PairIdle

NextDedup ==
    \/ DedupNotFound
    \/ DedupOpen
    \/ DedupLine
    \/ DedupEnd
    \/ DedupAgain

SpecDedup == InitDedup /\ [][NextDedup]_vars

\* =================================================================== claims
\* ------------------------------------------------- helpers of the formulas
HasFp(line) == JsonValid(line) /\ Fingerprint(JsonLoads(line)).err = "none"
FpOf(line) == Fingerprint(JsonLoads(line)).val
IsFirstOcc(lines, i) ==
    /\ HasFp(lines[i])
    /\ \A j \in 1..(i - 1) : HasFp(lines[j]) => FpOf(lines[j]) # FpOf(lines[i])
RECURSIVE FirstOccFrom(_, _)
FirstOccFrom(lines, i) ==
    IF i > Len(lines) THEN <<>>
    ELSE (IF IsFirstOcc(lines, i) THEN <<lines[i]>> ELSE <<>>)
         \o FirstOccFrom(lines, i + 1)
FirstOccurrences(lines) == FirstOccFrom(lines, 1)

DedupEnded == dpc \in {"done", "raised"}

\* C3: when dedup_file ends, for every input file, its output is exactly the
\* first occurrence of each distinct fingerprint of the input, in input
\* order, every line was read and kept counts the output.
C3_FirstOccurrenceWins ==
    (run = 1 /\ DedupEnded) =>
        /\ DedupOutput = FirstOccurrences(orig.content)
        /\ total_read = Len(orig.content)
        /\ kept = Len(DedupOutput)

\* C3, the part the code keeps: a pass that reaches the end of the file has
\* written exactly the first occurrences.
C3_FirstOccurrenceWinsWhenCompleted ==
    (run = 1 /\ dpc = "done") =>
        /\ DedupOutput = FirstOccurrences(orig.content)
        /\ total_read = Len(orig.content)
        /\ kept = Len(DedupOutput)

\* C4: a second dedup_file run, on the output of the first, writes the same
\* record sequence and reports the same kept count as the first run.
C4_DedupIdempotent ==
    (run = 2 /\ DedupEnded) =>
        /\ DedupOutput = first.out
        /\ kept = first.kept

\* C4 witness: the second run has ended after a first run that removed
\* duplicates and kept at least two records.
C4_Witness ==
    /\ run = 2 /\ dpc = "done"
    /\ first.kept >= 2
    /\ Len(orig.content) > first.kept

\* C5: dedup_file skips a malformed line (invalid JSON, invalid base64, no
\* message id and no payload field) and goes on: the pass always reaches the
\* end of the file, having read every line and kept the first occurrences
\* of the well-formed ones.
C5_MalformedSkipped ==
    (run = 1 /\ DedupEnded) =>
        /\ dpc = "done"
        /\ total_read = Len(orig.content)
        /\ DedupOutput = FirstOccurrences(orig.content)

\* C6: dedup_file leaves the original file as it was, except that an
\* in-place run that completed the whole pass has replaced it by the
\* temporary output; an in-place run that aborts leaves it unchanged.
C6_OriginalOnlySwapped ==
    (run >= 1 /\ orig.there) =>
        /\ Exists(fs, orig.path)
        /\ ~inplace => fs[orig.path] = orig.content
        /\ (inplace /\ run = 1 /\ dpc # "done") => fs[orig.path] = orig.content
        /\ (inplace /\ run = 1 /\ dpc = "done") =>
              /\ fs[orig.path] = FirstOccurrences(orig.content)
              /\ ~Exists(fs, TmpPath(orig.path, TRUE))

\* C6 witness: an in-place pass has aborted after writing part of its
\* output to the temporary file.
C6_Witness ==
    /\ run = 1 /\ inplace /\ dpc = "raised"
    /\ Exists(fs, TmpPath(orig.path, TRUE))
    /\ Len(fs[TmpPath(orig.path, TRUE)]) >= 1
    /\ Len(fs[TmpPath(orig.path, TRUE)]) < total_read - 1

RestoredMessages ==
    {[body |-> Encode("a"), message_id |-> "m1"],
     [body |-> Encode("b"), message_id |-> "m2"],
     [body |-> B64Decode("YQ=="), message_id |-> "m3"]}
C1_RoundTrip ==
    (broker.kind = "requeue" /\ imp.pc = "done") =>
        LET q == dest[<<SourceQueue.vhost, SourceQueue.name>>]
        IN /\ Len(q) = 3
           /\ {q[i] : i \in 1..Len(q)} = RestoredMessages

\* ----------------------------------------------------- helpers of C9, C10
\* The p-th page of the API, empty past the last.
PageAt(p) == IF p <= Len(api.pages) THEN api.pages[p] ELSE <<>>
\* The first page that is short or empty.
FirstShortPage ==
    CHOOSE k \in 1..(Len(api.pages) + 1) :
        /\ Len(PageAt(k)) < MAX_PAGE_SIZE
        /\ \A j \in 1..(k - 1) : Len(PageAt(j)) = MAX_PAGE_SIZE
RECURSIVE ConcatPages(_)
ConcatPages(k) == IF k = 0 THEN <<>> ELSE ConcatPages(k - 1) \o PageAt(k)
PageFailed == \E i \in 1..Len(lst.requested) : lst.requested[i] = api.failAt

\* C9: list_queues requests the pages 1, 2, ... in order and none after the
\* first short or empty page k, and what it returns is the concatenation of
\* the pages 1..k in order.
C9_PaginationComplete ==
    /\ lst.requested = [i \in 1..Len(lst.requested) |-> i]
    /\ Len(lst.requested) <= FirstShortPage
    /\ lst.pc = "returned" =>
          /\ Len(lst.requested) = FirstShortPage
          /\ lst.queues = ConcatPages(FirstShortPage)
    /\ (lst.pc = "get" /\ ~PageFailed) =>
          /\ lst.page = Len(lst.requested) + 1
          /\ lst.queues = ConcatPages(Len(lst.requested))

\* C9 witness: list_queues has returned after a short, non-empty page that
\* followed a full one, with a later page left unrequested.
C9_Witness ==
    /\ lst.pc = "returned"
    /\ Len(lst.requested) >= 2
    /\ Len(lst.requested) < Len(api.pages)
    /\ PageAt(Len(lst.requested)) # <<>>
    /\ PageAt(Len(lst.requested) + 1) # <<>>

\* ------------------------------------------------------ helpers of C7, C8
Draining(w) == wk[w].pc = "export"
\* The worker is inside "with gzip.open(out_path, 'wt')".
FileOpen(w) == Draining(w) /\ wk[w].d.pc = "loop"
Scheduled == Range(ex.non_empty)

\* C7: at any time each queue has had at most one export_queue call, none
\* when it advertises 0 messages; no two workers drain the same queue or
\* have the same output file open; and when export_all has finished every
\* queue of the list that advertises messages has had exactly one call.
C7_WorkDistribution ==
    /\ \A q \in DOMAIN calls :
         /\ calls[q] <= 1
         /\ q.messages = 0 => calls[q] = 0
    /\ \A w1, w2 \in DOMAIN wk :
         (w1 # w2 /\ Draining(w1) /\ Draining(w2)) =>
             /\ wk[w1].d.qi # wk[w2].d.qi
             /\ OutPath(wk[w1].d.qi) # OutPath(wk[w2].d.qi)
    /\ \A w \in DOMAIN wk : Draining(w) => calls[wk[w].d.qi] = 1
    /\ ex.pc = "finished" =>
         \A q \in Range(ex.queues) : q.messages > 0 => calls[q] = 1

\* C7 witness: two workers are inside the drains of two different queues,
\* both with their output file open.
C7_Witness ==
    \E w1, w2 \in DOMAIN wk :
        /\ w1 # w2 /\ FileOpen(w1) /\ FileOpen(w2)
        /\ work.items # <<>>

\* C8: once the work is queued, 'Export finished' is reported eventually,
\* whichever drains raise, and only when every scheduled queue has been
\* attempted and its attempt is over.
C8_FinishedOnlyAfterAll ==
    ex.pc = "finished" =>
        /\ \A q \in Scheduled : calls[q] = 1
        /\ \A w \in DOMAIN wk : ~Draining(w)
        /\ work.items = <<>>
        /\ work.unfinished = 0
C10_NoPartialEnumeration ==
    PageFailed =>
        /\ lst.pc = "raised"
        /\ ex.pc \in {"list", "raised"}
        /\ ex.queues = <<>> /\ ex.non_empty = <<>>
        /\ work = [items |-> <<>>, unfinished |-> 0]
        /\ ex.started = 0
        /\ wk = <<>>
        /\ calls = <<>>
        /\ fs = <<>>

\* C10 witness: the second page failed after the first had delivered queues
\* with messages, and export_all has ended with the exception.
C10_Witness ==
    /\ PageFailed
    /\ ex.pc = "raised"
    /\ Len(lst.requested) >= 2
    /\ \E i \in 1..Len(lst.queues) : lst.queues[i].messages > 0

\* ------------------------------------------------ claims on export_queue
\* export_queue has returned after creating its output file.
DrainReturned == drain.pc = "done"

\* C11: whenever export_queue finishes with zero records written (every
\* read empty, every record malformed, or an error on the first read), the
\* output file it created does not exist afterwards.
C11_NoEmptyArtifacts ==
    (DrainReturned /\ drain.saved = 0) => ~Exists(fs, OutPath(drain.qi))

\* A read of the drain has failed (the last response was an error).
ReadFailed == broker.last = "error"

\* C12: when a read of export_queue fails, no further read is issued for
\* the queue, the records written by the reads before it stay in the backup
\* file, and export_queue returns instead of raising.
C12_FailureState ==
    (broker.kind = "any" /\ ReadFailed) =>
        /\ drain.pc \in {"after", "done"}
        /\ Exists(fs, OutPath(drain.qi))
        /\ Len(fs[OutPath(drain.qi)]) = drain.saved
C12_FailureStep ==
    (broker.kind = "any" /\ broker'.last = "error") =>
        /\ Exists(fs', OutPath(drain.qi))
        /\ fs'[OutPath(drain.qi)] = fs[OutPath(drain.qi)]
        /\ drain'.saved = drain.saved
        /\ broker'.reads = IF ReadFailed THEN broker.reads ELSE broker.reads + 1
        /\ drain'.pc = IF ReadFailed THEN "done" ELSE "after"
C12_DrainFailureScoped ==
    /\ [](C12_FailureState)
    /\ [][C12_FailureStep]_vars

\* C12 witness: export_queue has returned after its third read failed, with
\* the record of an earlier read in the file.
C12_Witness ==
    /\ broker.kind = "any" /\ ReadFailed /\ DrainReturned
    /\ broker.reads = 3
    /\ drain.saved = 1
    /\ fs[OutPath(drain.qi)] = <<JsonDumps(MsgA)>>

\* -------------------------------------------------- claims on import_all
\* The queue name import_all decodes from a backup file's name.
QueueOf(f) ==
    decode_legacy_queue(SubSeq(f[2], 1, Len(f[2]) - Len(SUFFIX)), iargs.legacy_sanitize)

\* C13: import_all never opens a channel for, declares or publishes to a
\* queue whose decoded name starts with a reserved prefix: no channel was
\* asked for such a queue, no file of such a queue is being read, such a
\* queue is never created at the destination and one that exists there
\* receives no message.
C13_ReservedNeverRestored ==
    /\ \A key \in imp.served : ~StartsWith(key[2], <<"amq", ".">>)
                                /\ ~StartsWith(key[2], <<"reply_">>)
                                /\ ~StartsWith(key[2], <<"rabbitmq", ".", "recovery", ".">>)
    /\ imp.pc = "lines" => \A pre \in RESERVED_PREFIXES : ~StartsWith(imp.qname, pre)
    /\ \A key \in DOMAIN dest :
         (\E pre \in RESERVED_PREFIXES : StartsWith(key[2], pre)) =>
             /\ key \in DOMAIN ImportDest
             /\ dest[key] = <<>>

\* C13 witness: the restore is over, it has reached the files of amq.gen
\* and reply_123, and it has published the messages of another queue.
C13_Witness ==
    /\ imp.pc = "done"
    /\ \E f \in imp.visited : QueueOf(f) = <<"amq", ".", "gen">>
    /\ \E f \in imp.visited : QueueOf(f) = <<"reply_", "123">>
    /\ \E key \in DOMAIN dest : Len(dest[key]) = 2
    /\ iargs.declare_queue

\* The vhost import_all decodes from a directory name, and whether the
\* --vhost filter lets it pass.
VhostOf(f) == decode_legacy_vhost(f[1], iargs.legacy_sanitize)
Wanted(f) == iargs.vhost = {} \/ VhostOf(f) \in iargs.vhost

\* C14: a transport error of connecting, declaring or publishing while one
\* backup file is restored aborts that file only: import_all never ends
\* with the exception, and when it has ended every backup file of the
\* directory (of the wanted vhosts) has been processed.
C14_RestoreFailureIsolation ==
    /\ imp.pc # "raised"
    /\ imp.pc = "done" => \A f \in DOMAIN fs : Wanted(f) => f \in imp.visited

ImportEnded == imp.pc \in {"done", "raised", "notfound"}

\* C15: during one import_all run at most one connection is opened per
\* vhost, however many queue files the vhost has, and when import_all has
\* ended every connection it opened has been closed.
C15_ConnectionCache ==
    /\ conn_cache.opened <= Cardinality({key[1] : key \in imp.served})
    /\ conn_cache.opened = Cardinality(conn_cache.open) + conn_cache.closed
    /\ ImportEnded => /\ conn_cache.open = {}
                      /\ conn_cache.closed = conn_cache.opened

\* C15, the part the code keeps: at most one connection per vhost, and all
\* of them closed when import_all returns.
C15_ConnectionCacheWhenReturned ==
    /\ conn_cache.opened <= Cardinality({key[1] : key \in imp.served})
    /\ conn_cache.opened = Cardinality(conn_cache.open) + conn_cache.closed
    /\ imp.pc \in {"done", "notfound"} =>
          /\ conn_cache.open = {}
          /\ conn_cache.closed = conn_cache.opened

\* ------------------------------------------------- claims on _fingerprint
\* The record carries a message id; its payload bytes, when it has any: the
\* UTF-8 bytes of the text payload or the bytes its base64 payload encodes.
CarriesId(r) == r.mid # ""
HasBytes(r) == r.pf = "payload" \/ (r.pf = "payload_bytes" /\ B64Valid(r.val))
PayloadBytes(r) == IF r.pf = "payload" THEN Encode(r.val) ELSE B64Decode(r.val)

\* C16: two records with the same message id have the same fingerprint
\* whatever their payloads; two records without message id have the same
\* fingerprint when their payload bytes are equal, stored as text or as
\* base64, and different fingerprints when the bytes differ.
C16_FingerprintStable ==
    pair.pc = "done" =>
        /\ (CarriesId(pair.r1) /\ CarriesId(pair.r2) /\ pair.r1.mid = pair.r2.mid) =>
              /\ pair.f1.err = "none" /\ pair.f2.err = "none"
              /\ pair.f1.val = pair.f2.val
              /\ pair.f1.val.tag = "id:" /\ pair.f1.val.mid = pair.r1.mid
        /\ (~CarriesId(pair.r1) /\ ~CarriesId(pair.r2)
            /\ HasBytes(pair.r1) /\ HasBytes(pair.r2)) =>
              /\ pair.f1.err = "none" /\ pair.f2.err = "none"
              /\ pair.f1.val.tag = "sha:" /\ pair.f2.val.tag = "sha:"
              /\ (pair.f1.val = pair.f2.val) <=>
                     (PayloadBytes(pair.r1) = PayloadBytes(pair.r2))

\* C16 witness: a text record and a base64 record without message id, of
\* equal bytes, have been given the same fingerprint.
C16_Witness ==
    /\ pair.pc = "done"
    /\ ~CarriesId(pair.r1) /\ ~CarriesId(pair.r2)
    /\ pair.r1.pf = "payload" /\ pair.r2.pf = "payload_bytes"
    /\ PayloadBytes(pair.r1) = PayloadBytes(pair.r2)
    /\ pair.f1.err = "none" /\ pair.f1 = pair.f2

\* ------------------------------------------ more claims on export_queue
\* C17: in every reachable state of export_queue, for any read stream in
\* which each read yields zero or more records, the number of records
\* written to the backup file is at most the advertised count.
C17_NeverMoreThanAdvertised ==
    (broker.kind = "any" /\ Exists(fs, OutPath(drain.qi))
     /\ drain.pc \in {"loop", "after", "done"}) =>
        /\ Len(fs[OutPath(drain.qi)]) <= drain.qi.messages
        /\ drain.saved <= drain.qi.messages

\* C17, the part the code keeps: no read is issued once the advertised
\* count is reached, so the excess is less than one response.
C17_NoReadOnceReached ==
    (broker.kind = "any" /\ drain.pc = "loop") => drain.saved < drain.qi.messages

\* The loop of export_queue was left right after an empty response.
StoppedForEmptiness == drain.pc \in {"after", "done"} /\ broker.last = "empty"

\* C18: the consecutive-empty counter of export_queue always lies in 0..3
\* and equals the number of empty responses in a row up to the last read; an
\* empty read increments it by exactly one, a non-empty read resets it to 0;
\* and the loop stops for emptiness exactly when three empty reads came in
\* a row: it goes on after one or two.
C18_CounterState ==
    broker.kind = "any" =>
        /\ drain.consecutive_empty \in 0..max_empty_attempts
        /\ drain.consecutive_empty = broker.streak
        /\ drain.pc = "loop" => broker.streak < max_empty_attempts
        /\ StoppedForEmptiness <=> broker.streak = max_empty_attempts
C18_CounterStep ==
    (broker.kind = "any" /\ broker'.reads = broker.reads + 1) =>
        /\ broker'.last = "empty" =>
              drain'.consecutive_empty = drain.consecutive_empty + 1
        /\ broker'.last = "msgs" => drain'.consecutive_empty = 0
        /\ broker'.last = "error" =>
              drain'.consecutive_empty = drain.consecutive_empty
        /\ (broker'.last = "empty" /\ drain.consecutive_empty < max_empty_attempts - 1) =>
              drain'.pc = "loop"
C18_EmptyStreak ==
    /\ [](C18_CounterState)
    /\ [][C18_CounterStep]_vars

\* C18 witness: the loop has stopped on three empty reads in a row, six
\* reads after it began, an earlier non-empty read having reset the counter
\* and nothing having been saved.
C18_Witness ==
    /\ broker.kind = "any" /\ DrainReturned
    /\ StoppedForEmptiness
    /\ broker.reads = 6
    /\ broker.maxresp >= 1
    /\ drain.saved = 0

\* C19: for every endless stream of read responses against a queue that
\* advertises messages, each response empty, an eligible record, only
\* malformed records or an error, the read loop of export_queue ends.
C19_NoInfinitePolling ==
    (broker.kind = "poll" /\ drain.pc = "loop") ~> (drain.pc # "loop")

\* C19, the part the code keeps: the loop ends as soon as a read fails, a
\* third empty read in a row comes, or the advertised count is saved.
C19_LoopEndsOnStop ==
    (broker.kind = "poll" /\ drain.pc = "loop") =>
        /\ broker.last # "error"
        /\ drain.consecutive_empty < max_empty_attempts
        /\ drain.saved < drain.qi.messages

\* The lines export_queue can have written from the responses of this run.
LinesOfThisRun == {JsonDumps(m) : m \in {r \in DrainCorpus : Eligible(r)}}

\* C20: when export_queue runs for a queue that advertises messages and
\* whose backup file exists from an earlier run, then from the moment it
\* has opened the file, the file, if it exists, holds exactly the records
\* saved in this run and no record of the earlier run, also when the first
\* read fails or returns nothing.
C20_ReexportReplaces ==
    (broker.kind = "any" /\ prior.there /\ drain.qi.messages > 0
     /\ drain.pc \in {"loop", "after", "done"} /\ Exists(fs, OutPath(drain.qi))) =>
        LET file == fs[OutPath(drain.qi)]
        IN /\ Len(file) = drain.saved
           /\ \A i \in 1..Len(file) :
                /\ file[i] \in LinesOfThisRun
                /\ file[i] \notin Range(prior.content)

\* C20 witness: a backup file of an earlier run existed, the first read of
\* this run failed, and export_queue has returned leaving the file without
\* any record.
C20_Witness ==
    /\ broker.kind = "any" /\ prior.there /\ prior.content # <<>>
    /\ DrainReturned
    /\ broker.reads = 1 /\ ReadFailed
    /\ Exists(fs, OutPath(drain.qi))
    /\ fs[OutPath(drain.qi)] = <<>>

====
